---- MODULE Spec2Model ----
(***************************************************************************)
(* A model of the IPC JavaScript SDK: the IPCClient constructor, the       *)
(* timeout-bounded makeRequest, makeRequestWithFallback over an ordered    *)
(* list of candidate URLs, the three response validators and the operation *)
(* functions getIP / getIPDetails / getSDKVersions built on them.          *)
(***************************************************************************)
EXTENDS Integers, Sequences, FiniteSets, TLC

\* Longest candidate URL list the model explores.
MaxUrls == 3

\* client.ts: const DEFAULT_TIMEOUT = 10000
DEFAULT_TIMEOUT == 10000
\* client.ts: this.timeout > 60000
MAX_TIMEOUT == 60000

(***************************************************************************)
(* Optional values: undefined is the empty set, a present value x is {x}.  *)
(***************************************************************************)
None == {}
Some(x) == {x}

(***************************************************************************)
(* JSON values as response.json() yields them.  t is the JavaScript kind,  *)
(* s the text of a string, elems the kinds of an array's elements.         *)
(***************************************************************************)
Undefined == [t |-> "undefined", s |-> "", elems |-> <<>>]
Null == [t |-> "null", s |-> "", elems |-> <<>>]
Str(text) == [t |-> "string", s |-> text, elems |-> <<>>]
Num == [t |-> "number", s |-> "", elems |-> <<>>]
Arr(kinds) == [t |-> "array", s |-> "", elems |-> kinds]

\* JavaScript's typeof.
TypeOf(v) ==
  CASE v.t \in {"null", "array", "object"} -> "object"
    [] OTHER -> v.t

\* JavaScript truthiness of a value (numbers of the model are non-zero).
Truthy(v) ==
  /\ v.t \notin {"undefined", "null"}
  /\ ~(v.t = "string" /\ v.s = "")

\* Array.isArray
IsArray(v) == v.t = "array"

\* Every property name the model reads from a decoded body.
Fields ==
  {"ip", "userAgent", "asn", "country", "currency", "languages",
   "timestamp", "version", "javascript", "python", "message", "code"}

NoFields == [k \in Fields |-> Undefined]

\* A decoded body: its own kind t (and text s, for a string) and, for an
\* object, its properties f; a property read on anything else is undefined.
Obj(props) == [t |-> "object", s |-> "", f |-> props]
Prim(v) == [t |-> v.t, s |-> v.s, f |-> NoFields]

(***************************************************************************)
(* validators.ts                                                           *)
(***************************************************************************)
\* The validator of getIP with the check of country left out.
validateIPResponseNoCountry(data) ==
  IF ~Truthy(data) \/ TypeOf(data) # "object"
  THEN FALSE
  ELSE TypeOf(data.f["ip"]) = "string"

validateIPResponse(data) ==
  IF ~Truthy(data) \/ TypeOf(data) # "object"
  THEN FALSE
  ELSE /\ TypeOf(data.f["ip"]) = "string"
       /\ TypeOf(data.f["country"]) = "string"

\* response.languages.every((lang) => typeof lang === 'string')
EveryLangIsString(languages) ==
  \A k \in 1..Len(languages.elems) : languages.elems[k] = "string"

\* The same validator with the element check of languages left out.
validateIPDetailsResponseNoEvery(data) ==
  IF ~Truthy(data) \/ TypeOf(data) # "object"
  THEN FALSE
  ELSE /\ TypeOf(data.f["ip"]) = "string"
       /\ TypeOf(data.f["userAgent"]) = "string"
       /\ TypeOf(data.f["asn"]) = "string"
       /\ TypeOf(data.f["country"]) = "string"
       /\ TypeOf(data.f["currency"]) = "string"
       /\ IsArray(data.f["languages"])
       /\ TypeOf(data.f["timestamp"]) = "string"
       /\ TypeOf(data.f["version"]) = "string"

validateIPDetailsResponse(data) ==
  IF ~Truthy(data) \/ TypeOf(data) # "object"
  THEN FALSE
  ELSE /\ TypeOf(data.f["ip"]) = "string"
       /\ TypeOf(data.f["userAgent"]) = "string"
       /\ TypeOf(data.f["asn"]) = "string"
       /\ TypeOf(data.f["country"]) = "string"
       /\ TypeOf(data.f["currency"]) = "string"
       /\ IsArray(data.f["languages"])
       /\ EveryLangIsString(data.f["languages"])
       /\ TypeOf(data.f["timestamp"]) = "string"
       /\ TypeOf(data.f["version"]) = "string"

validateSDKVersionsResponse(data) ==
  IF ~Truthy(data) \/ TypeOf(data) # "object"
  THEN FALSE
  ELSE /\ TypeOf(data.f["javascript"]) = "string"
       /\ TypeOf(data.f["python"]) = "string"

\* Every operation validating with the validator of getIP.
ValidatesAsIP(op, data) == validateIPResponse(data)

\* The validator each operation applies to the decoded payload.
Validates(op, data) ==
  CASE op = "getIP" -> validateIPResponse(data)
    [] op = "getIPDetails" -> validateIPDetailsResponse(data)
    [] op = "getSDKVersions" -> validateSDKVersionsResponse(data)

(***************************************************************************)
(* The response types: what a value of each declared shape is.             *)
(***************************************************************************)
Range(seq) == {seq[k] : k \in 1..Len(seq)}

IsStringValue(v) == v.t = "string"
IsStringArray(v) == v.t = "array" /\ Range(v.elems) \subseteq {"string"}

IPResponse(data) ==
  /\ data.t = "object"
  /\ \A k \in {"ip", "country"} : IsStringValue(data.f[k])

IPDetailsResponse(data) ==
  /\ data.t = "object"
  /\ \A k \in {"ip", "userAgent", "asn", "country", "currency",
               "timestamp", "version"} : IsStringValue(data.f[k])
  /\ IsStringArray(data.f["languages"])

SDKVersionsResponse(data) ==
  /\ data.t = "object"
  /\ \A k \in {"javascript", "python"} : IsStringValue(data.f[k])

Conforms(op, data) ==
  CASE op = "getIP" -> IPResponse(data)
    [] op = "getIPDetails" -> IPDetailsResponse(data)
    [] op = "getSDKVersions" -> SDKVersionsResponse(data)

(***************************************************************************)
(* The bodies a host may send.                                             *)
(***************************************************************************)
Required(op) ==
  CASE op = "getIP" -> {"ip", "country"}
    [] op = "getIPDetails" ->
         {"ip", "userAgent", "asn", "country", "currency", "languages",
          "timestamp", "version"}
    [] op = "getSDKVersions" -> {"javascript", "python"}

GoodValue(k) == IF k = "languages" THEN Arr(<<"string", "string">>) ELSE Str("x")

BadValues(k) ==
  IF k = "languages"
  THEN {Undefined, Str("en"), Arr(<<"string", "number">>)}
  ELSE {Undefined, Num}

BaseProps(op) == [k \in Fields |-> IF k \in Required(op) THEN GoodValue(k) ELSE Undefined]

\* Bodies a well-behaved host answers the operation with.
ValidPayloads(op) ==
  {Obj(BaseProps(op))}
  \cup (IF op = "getIPDetails"
        THEN {Obj([BaseProps(op) EXCEPT !["languages"] = Arr(<<>>)])}
        ELSE {})

\* Bodies that decode as JSON and break the operation's shape: one required
\* property missing or of another kind, or no object at all.
InvalidPayloads(op) ==
  UNION {{Obj([BaseProps(op) EXCEPT ![k] = v]) : v \in BadValues(k)} :
           k \in Required(op)}
  \cup {Prim(Null), Prim(Str("x")), Prim(Arr(<<>>))}

(***************************************************************************)
(* Thrown values.  Every thrown value has the same four properties; name   *)
(* tells the class apart (instanceof IPCError / TypeError, AbortError).    *)
(* A message is a template text with its number n and string s filled in.  *)
(***************************************************************************)
Plain(text) == [text |-> text, n |-> 0, s |-> ""]
TimeoutMessage(timeout) == [text |-> "Request timeout after {n}ms", n |-> timeout, s |-> ""]
HttpMessage(status, statusText) == [text |-> "HTTP {n}: {s}", n |-> status, s |-> statusText]

\* new IPCError(message, statusCode?, code?)
IPCError(message, statusCode, code) ==
  [name |-> "IPCError", message |-> message, statusCode |-> statusCode, code |-> code]

\* An exception of the platform (fetch, response.json(), new URL).
Exception(name, text) ==
  [name |-> name, message |-> Plain(text), statusCode |-> None, code |-> None]

AbortError == Exception("AbortError", "This operation was aborted")

\* What fetch itself may reject with while no abort was signalled: a
\* transport failure (TypeError) or anything else.
FetchFailures ==
  {Exception("TypeError", "fetch failed"), Exception("Error", "internal failure")}

\* What response.json() may reject with: malformed JSON, or the body stream
\* breaking off.
DecodeFailures ==
  {Exception("SyntaxError", "Unexpected token < in JSON"),
   Exception("TypeError", "terminated")}

IsIPCError(e) == e.name = "IPCError"

(***************************************************************************)
(* client.ts, the constructor's timeout: options.timeout || DEFAULT_TIMEOUT *)
(* and the range check.                                                    *)
(***************************************************************************)
TimeoutOrDefault(option) ==
  IF option = None \/ option = Some(0)
  THEN DEFAULT_TIMEOUT
  ELSE CHOOSE v \in option : TRUE

TimeoutOutOfRange(timeout) == timeout <= 0 \/ timeout > MAX_TIMEOUT

(***************************************************************************)
(* makeRequest: the failure of a non-2xx response.  body is what           *)
(* response.json() gave: [ok |-> TRUE, data |-> d] or a rejection.         *)
(* In the strict variant (http-client.ts) the reads of errorData are       *)
(* guarded; in the loose one (client.ts) a read on null throws inside the  *)
(* inner try and is swallowed there with the decode failures.              *)
(***************************************************************************)
ErrorDataReadable(impl, body) ==
  /\ body.ok
  /\ IF impl = "strict" THEN Truthy(body.data) ELSE body.data.t \notin {"null", "undefined"}

ErrorMessageOf(impl, status, statusText, body) ==
  IF ErrorDataReadable(impl, body) /\ Truthy(body.data.f["message"])
  THEN Plain(body.data.f["message"].s)
  ELSE HttpMessage(status, statusText)

ErrorCodeOf(impl, body) ==
  IF ErrorDataReadable(impl, body) /\ Truthy(body.data.f["code"])
  THEN Some(body.data.f["code"].s)
  ELSE None

\* The non-2xx branch without its inner try/catch: a body that does not
\* decode escapes to the outer catch and is reported in place of the status.
NonOkErrorDecodeEscapes(impl, status, statusText, body) ==
  IF body.ok
  THEN IPCError(ErrorMessageOf(impl, status, statusText, body), Some(status),
                ErrorCodeOf(impl, body))
  ELSE IPCError(Plain("An unexpected error occurred. Please try again later"), None, None)

NonOkError(impl, status, statusText, body) ==
  IPCError(ErrorMessageOf(impl, status, statusText, body), Some(status),
           ErrorCodeOf(impl, body))

\* response.ok
ResponseOk(status) == status >= 200 /\ status <= 299

\* A header is the sequence of its parts, a missing header the empty
\* sequence.  This check lets a response without the header through.
ContentTypeIsJsonOrMissing(contentType) ==
  \/ contentType = <<>>
  \/ \E k \in 1..Len(contentType) : contentType[k] = "application/json"

\* !contentType || !contentType.includes('application/json'), negated.
ContentTypeIsJson(contentType) ==
  /\ contentType # <<>>
  /\ \E k \in 1..Len(contentType) : contentType[k] = "application/json"

InvalidContentType ==
  IPCError(Plain("Invalid response content type. Expected application/json"), None, None)

(***************************************************************************)
(* makeRequest: the catch block's mapping of whatever was thrown.          *)
(***************************************************************************)
\* A catch block whose timeout message names the default timeout.
CatchMappingDefaultTimeout(impl, error, timeout) ==
  IF error.name = "AbortError"
  THEN IPCError(TimeoutMessage(DEFAULT_TIMEOUT), None, None)
  ELSE IF IsIPCError(error)
  THEN error
  ELSE IPCError(Plain("An unexpected error occurred. Please try again later"), None, None)

\* A catch block that maps the abort and rethrows everything else as it is.
CatchMappingRethrows(impl, error, timeout) ==
  IF error.name = "AbortError"
  THEN IPCError(TimeoutMessage(timeout), None, None)
  ELSE error

CatchMapping(impl, error, timeout) ==
  IF error.name = "AbortError"
  THEN IPCError(TimeoutMessage(timeout), None, None)
  ELSE IF IsIPCError(error)
  THEN error
  ELSE IF error.name = "TypeError"
  THEN IF impl = "strict"
       THEN IPCError(Plain("Network error occurred. Please check your connection and try again"),
                     None, None)
       ELSE IPCError([text |-> "Network error: {s}", n |-> 0, s |-> error.message.text],
                     None, None)
  ELSE IF impl = "strict"
       THEN IPCError(Plain("An unexpected error occurred. Please try again later"), None, None)
       ELSE IF error.name = "NonError"
            THEN IPCError(Plain("An unknown error occurred"), None, None)
            ELSE IPCError(error.message, None, None)

\* The operations' failure when the validator rejects the payload.
InvalidResponse == IPCError(Plain("Invalid response structure from API"), None, None)

\* makeRequestWithFallback: throw lastError || new IPCError('All requests failed')
AllRequestsFailed == IPCError(Plain("All requests failed"), None, None)

(***************************************************************************)
(* The environment.  Each candidate host is of one kind for the whole      *)
(* call: it answers in time with a body of the operation's shape (valid),  *)
(* answers in time with JSON of another shape (invalid), fails in one of   *)
(* the ways makeRequest reports (fail), never answers (hang), or answers   *)
(* with headers and never delivers the body (stall).                       *)
(***************************************************************************)
HostKinds == {"valid", "invalid", "fail", "hang", "stall"}

JsonTypes == {<<"application/json">>, <<"application/json", "; charset=utf-8">>}
OtherTypes == {<<>>, <<"text/html">>}

StatusText(status) ==
  CASE status = 200 -> "OK"
    [] status = 404 -> "Not Found"
    [] status = 503 -> "Service Unavailable"

\* The status line and Content-Type a host of this kind may answer with.
Responses(kind) ==
  CASE kind \in {"valid", "invalid"} ->
         {[status |-> 200, contentType |-> c] : c \in JsonTypes}
    [] kind = "stall" ->
         {[status |-> st, contentType |-> <<"application/json">>] : st \in {200, 503}}
    [] kind = "fail" ->
         {[status |-> 404, contentType |-> c] :
            c \in {<<"application/json">>, <<"text/html">>}}
         \cup {[status |-> 503, contentType |-> <<"application/json">>]}
         \cup {[status |-> 200, contentType |-> c] : c \in OtherTypes \cup {<<"application/json">>}}
    [] OTHER -> {}

NoResponse == [status |-> 0, contentType |-> <<>>]

\* Error bodies of a non-2xx answer that decode as JSON.
ErrorBodies ==
  {Obj([NoFields EXCEPT !["message"] = m, !["code"] = c]) :
     m \in {Undefined, Str(""), Str("Not found")},
     c \in {Undefined, Str("E_NOT_FOUND")}}
  \cup {Prim(Null)}

NoData == Prim(Undefined)
NoError == [name |-> "none", message |-> Plain(""), statusCode |-> None, code |-> None]

\* response.json() was not awaited, or has not settled.
NotRead == [ok |-> FALSE, data |-> NoData, error |-> NoError]

Decoded(data) == [ok |-> TRUE, data |-> data, error |-> NoError]
Undecodable(e) == [ok |-> FALSE, data |-> NoData, error |-> e]

\* What response.json() may give for the body of an answer of this host.
Bodies(kind, op, status) ==
  IF ~ResponseOk(status)
  THEN IF kind = "fail"
       THEN {Decoded(d) : d \in ErrorBodies} \cup {Undecodable(e) : e \in DecodeFailures}
       ELSE {}
  ELSE CASE kind = "valid" -> {Decoded(d) : d \in ValidPayloads(op)}
         [] kind = "invalid" -> {Decoded(d) : d \in InvalidPayloads(op)}
         [] kind = "fail" -> {Undecodable(e) : e \in DecodeFailures}
         [] OTHER -> {}

\* The timeout option a caller may pass to the constructor.
TimeoutOptions ==
  {None} \cup {Some(v) : v \in {-5, 0, 1, 5000, MAX_TIMEOUT, MAX_TIMEOUT + 1, 70000}}

\* The entry points: the class method of client.ts, the single-URL
\* functions and the functions over a candidate list.
Calls ==
  {[op |-> "getIPDetails", variant |-> "client", impl |-> "loose"]}
  \cup {[op |-> o, variant |-> "single", impl |-> m] :
          o \in {"getIP", "getIPDetails", "getSDKVersions"}, m \in {"strict", "loose"}}
  \cup {[op |-> o, variant |-> "fallback", impl |-> "strict"] :
          o \in {"getIPDetails", "getSDKVersions"}}

NoCall == [op |-> "none", variant |-> "none", impl |-> "none"]

HostLists(variant) ==
  IF variant = "fallback"
  THEN UNION {[1..n -> HostKinds] : n \in 0..MaxUrls}
  ELSE [1..1 -> HostKinds]

(***************************************************************************)
(* sanitizeBaseUrl.  Its argument is a string: one new URL() parses, told   *)
(* by the parts the parser finds in it, or one it does not, told by its    *)
(* text.  A path is the sequence of its characters.                        *)
(***************************************************************************)
\* Longest path of a base URL the model explores.
MaxPath == 3

PathChars == {"/", "a"}

Paths == {p \in UNION {[1..n -> PathChars] : n \in 0..MaxPath} : p = <<>> \/ p[1] = "/"}

ParsableUrls ==
  [parsable : {TRUE}, text : {""}, protocol : {"https:", "http:", "ftp:"},
   host : {"x.com", "X.COM"}, path : Paths, search : {"", "?q=1"}]

UnparsableUrls ==
  {[parsable |-> FALSE, text |-> t, protocol |-> "", host |-> "", path |-> <<>>,
    search |-> ""] : t \in {"", "not a url"}}

\* client.ts: const DEFAULT_BASE_URL = 'https://ipc.artsnoa.com'
DEFAULT_BASE_URL ==
  [parsable |-> TRUE, text |-> "", protocol |-> "https:", host |-> "ipc.artsnoa.com",
   path |-> <<>>, search |-> ""]

\* options.baseUrl || DEFAULT_BASE_URL: undefined and the empty string are falsy.
BaseUrlOrDefault(option) ==
  IF option = None \/ (\E r \in option : ~r.parsable /\ r.text = "")
  THEN DEFAULT_BASE_URL
  ELSE CHOOSE r \in option : TRUE

\* The parser writes the host in lower case.
LowerCase(host) == IF host = "X.COM" THEN "x.com" ELSE host

\* new URL(url), for a string it parses: an empty path reads as "/".
ParsedUrl(raw) ==
  [protocol |-> raw.protocol,
   origin |-> [protocol |-> raw.protocol, host |-> LowerCase(raw.host)],
   pathname |-> IF raw.path = <<>> THEN <<"/">> ELSE raw.path,
   search |-> raw.search]

\* A replace that takes every trailing slash away.
RECURSIVE StripTrailingSlashes(_)
StripTrailingSlashes(path) ==
  IF path # <<>> /\ path[Len(path)] = "/"
  THEN StripTrailingSlashes(SubSeq(path, 1, Len(path) - 1))
  ELSE path

\* pathname.replace(/\/$/, '')
StripTrailingSlash(path) ==
  IF path # <<>> /\ path[Len(path)] = "/"
  THEN SubSeq(path, 1, Len(path) - 1)
  ELSE path

\* The two variants of sanitizeBaseUrl: http and https, or https only.
Policies == {"httpOrHttps", "httpsOnly"}

AllowedProtocols(policy) ==
  IF policy = "httpsOnly" THEN {"https:"} ELSE {"https:", "http:"}

ProtocolError(policy) ==
  IF policy = "httpsOnly"
  THEN IPCError(Plain("Base URL must use https protocol. HTTP is not allowed for security reasons"),
                None, None)
  ELSE IPCError(Plain("Base URL must use http or https protocol"), None, None)

InvalidBaseUrl(policy, raw) ==
  IF policy = "httpsOnly"
  THEN IPCError(Plain("Invalid base URL format. Please provide a valid HTTPS URL"), None, None)
  ELSE IPCError([text |-> "Invalid base URL: {s}", n |-> 0, s |-> raw.text], None, None)

\* The string origin + path, told by its two parts.
NoUrl == [origin |-> [protocol |-> "", host |-> ""], path |-> <<>>]

sanitizeBaseUrl(policy, raw) ==
  IF ~raw.parsable
  THEN [state |-> "thrown", value |-> NoUrl, error |-> InvalidBaseUrl(policy, raw)]
  ELSE LET parsedUrl == ParsedUrl(raw)
       IN IF parsedUrl.protocol \notin AllowedProtocols(policy)
          THEN [state |-> "thrown", value |-> NoUrl, error |-> ProtocolError(policy)]
          ELSE [state |-> "returned",
                value |-> [origin |-> parsedUrl.origin,
                           path |-> StripTrailingSlash(parsedUrl.pathname)],
                error |-> NoError]

(***************************************************************************)
(* State.                                                                  *)
(***************************************************************************)
VARIABLES
  options,     \* the argument of the constructor call, until the client is used
  client,      \* the IPCClient: not yet constructed, ready, or construction failed
  call,        \* the operation invoked: its name, variant and makeRequest variant
  hosts,       \* the kind of the host behind each candidate URL, in list order
  pc,          \* where the invoked operation stands
  i,           \* makeRequestWithFallback's loop index (1-based: the code's i + 1)
  timer,       \* per candidate: the setTimeout of its makeRequest call
  fetch,       \* per candidate: the fetch of its makeRequest call, until the call is over
  sent,        \* per candidate: how many requests were issued to it
  outcome,     \* per candidate: how its makeRequest call ended
  response,    \* the response the latest makeRequest call received
  decoded,     \* what response.json() gave the latest makeRequest call
  settled,     \* what the latest makeRequest call resolved or rejected with
  lastError,   \* makeRequestWithFallback's lastError (null is None)
  fallback,    \* how makeRequestWithFallback ended, and on which candidate
  validations, \* how many times the operation ran its validator
  result,      \* what the operation resolved or rejected with
  url,         \* a call of sanitizeBaseUrl: its caller, policy, argument and outcome
  conc         \* makeRequest calls running side by side, each with its own locals

\* The state of the constructor's timeout and of one invoked operation.
requestVars ==
  <<options, client, call, hosts, pc, i, timer, fetch, sent, outcome, response, decoded,
    settled, lastError, fallback, validations, result>>

vars == <<requestVars, url, conc>>

\* No constructor call is running: its argument is not kept, the client
\* holds the readonly fields only.
NoOptions == [given |-> FALSE, timeout |-> None]

Pending == [state |-> "pending", data |-> NoData, error |-> NoError]
Resolved(data) == [state |-> "resolved", data |-> data, error |-> NoError]
Rejected(error) == [state |-> "rejected", data |-> NoData, error |-> error]

NotStarted == [state |-> "pending", data |-> NoData, error |-> NoError, candidate |-> 0]

\* How many makeRequest calls the model runs side by side.
NCalls == 2

Requests == 1..NCalls

\* No makeRequest call was started: no timer, no signal aborted.
NoRequests ==
  [c \in Requests |->
     [host |-> "none", timeout |-> 0, pc |-> "idle", timer |-> "unset", signal |-> "clear",
      settled |-> Pending]]

\* No call of sanitizeBaseUrl was made.
NoUrlCall ==
  [caller |-> "none", policy |-> "none", arg |-> None, state |-> "idle", value |-> NoUrl,
   error |-> NoError]

Init ==
  /\ options = NoOptions
  /\ client = [state |-> "new", timeout |-> 0, error |-> NoError]
  /\ call = NoCall
  /\ hosts = <<>>
  /\ pc = "idle"
  /\ i = 0
  /\ timer = <<>>
  /\ fetch = <<>>
  /\ sent = <<>>
  /\ outcome = <<>>
  /\ response = NoResponse
  /\ decoded = NotRead
  /\ settled = Pending
  /\ lastError = None
  /\ fallback = NotStarted
  /\ validations = 0
  /\ result = Pending
  /\ url = NoUrlCall
  /\ conc = NoRequests

(***************************************************************************)
(* client.ts, constructor (the timeout option).                            *)
(***************************************************************************)
TimeoutRangeError ==
  IPCError(Plain("Timeout must be between 1 and 60000 milliseconds"), None, None)

Construct ==
  /\ client.state = "new"
  /\ \E option \in TimeoutOptions :
     LET timeout == TimeoutOrDefault(option)
     IN /\ options' = [given |-> TRUE, timeout |-> option]
        /\ client' = IF TimeoutOutOfRange(timeout)
                     THEN [state |-> "failed", timeout |-> 0, error |-> TimeoutRangeError]
                     ELSE [state |-> "ready", timeout |-> timeout, error |-> NoError]
  /\ UNCHANGED <<call, hosts, pc, i, timer, fetch, sent, outcome, response, decoded, settled,
                 lastError, fallback, validations, result>>
  /\ UNCHANGED <<url, conc>>

(***************************************************************************)
(* An operation is invoked on the constructed client: over its single base *)
(* URL, or over a candidate list (baseUrls.map(buildUrl) keeps the order   *)
(* and the length of the list).                                            *)
(***************************************************************************)
Invoke ==
  /\ client.state = "ready"
  /\ pc = "idle"
  /\ \E c \in Calls : \E hs \in HostLists(c.variant) :
       /\ call' = c
       /\ hosts' = hs
       /\ timer' = [k \in DOMAIN hs |-> "unset"]
       /\ fetch' = [k \in DOMAIN hs |-> "unsent"]
       /\ sent' = [k \in DOMAIN hs |-> 0]
       /\ outcome' = [k \in DOMAIN hs |-> "none"]
  /\ options' = NoOptions
  /\ i' = 1
  /\ pc' = "call"
  /\ UNCHANGED <<client, response, decoded, settled, lastError, fallback, validations, result>>
  /\ UNCHANGED <<url, conc>>

(***************************************************************************)
(* makeRequest.                                                            *)
(***************************************************************************)
\* clearTimeout(timeoutId): a pending timer becomes inactive, as one that
\* fired is; on any other timer it does nothing.
ClearTimeout(t) == IF t = "pending" THEN "inactive" ELSE t

\* The timer after the clearTimeout that follows the await of fetch.
TimerAfterResponse(t) == ClearTimeout(t)

\* A catch block that leaves the timer alone.
TimerInCatchMissing(t) == t

\* The timer after the clearTimeout that opens the catch block.
TimerInCatch(t) == ClearTimeout(t)

\* A loop that stops one candidate short: i < urls.length - 1.
LoopRunsStopsShort == call.variant = "fallback" => i <= Len(hosts) - 1

\* The loop of makeRequestWithFallback runs while i < urls.length.
LoopRuns == call.variant = "fallback" => i <= Len(hosts)

\* setTimeout(() => controller.abort(), timeout) and fetch(url, ...).
MakeRequest ==
  /\ pc = "call"
  /\ LoopRuns
  /\ timer' = [timer EXCEPT ![i] = "pending"]
  /\ fetch' = [fetch EXCEPT ![i] = "inflight"]
  /\ sent' = [sent EXCEPT ![i] = @ + 1]
  /\ outcome' = [outcome EXCEPT ![i] = "pending"]
  /\ response' = NoResponse
  /\ decoded' = NotRead
  /\ pc' = "fetching"
  /\ UNCHANGED <<options, client, call, hosts, i, settled, lastError, fallback, validations, result>>
  /\ UNCHANGED <<url, conc>>

\* The catch block: clearTimeout, then the rejection CatchMapping gives.
Caught(error) ==
  /\ settled' = Rejected(CatchMapping(call.impl, error, client.timeout))
  /\ outcome' = [outcome EXCEPT ![i] = "rejected"]
  /\ fetch' = [fetch EXCEPT ![i] = "over"]
  /\ pc' = "settled"

\* The timer of candidate k fires: controller.abort().  A host that answers
\* in time answers before its timer fires.
TimerFire(k) ==
  /\ timer[k] = "pending"
  /\ fetch[k] = "inflight" => hosts[k] \in {"hang", "fail"}
  /\ timer' = [timer EXCEPT ![k] = "inactive"]
  /\ fetch' = [fetch EXCEPT ![k] = IF @ = "inflight" THEN "aborted" ELSE @]
  /\ UNCHANGED <<options, client, call, hosts, pc, i, sent, outcome, response, decoded, settled,
                 lastError, fallback, validations, result>>
  /\ UNCHANGED <<url, conc>>

\* The aborted fetch rejects with an AbortError.
FetchAborted ==
  /\ pc = "fetching"
  /\ fetch[i] = "aborted"
  /\ timer' = [timer EXCEPT ![i] = TimerInCatch(@)]
  /\ Caught(AbortError)
  /\ UNCHANGED <<options, client, call, hosts, i, sent, response, decoded, lastError,
                 fallback, validations, result>>
  /\ UNCHANGED <<url, conc>>

\* fetch rejects on its own: a transport failure or anything else.
FetchRejects ==
  /\ pc = "fetching"
  /\ fetch[i] = "inflight"
  /\ hosts[i] = "fail"
  /\ timer' = [timer EXCEPT ![i] = TimerInCatch(@)]
  /\ \E e \in FetchFailures : Caught(e)
  /\ UNCHANGED <<options, client, call, hosts, i, sent, response, decoded, lastError,
                 fallback, validations, result>>
  /\ UNCHANGED <<url, conc>>

\* fetch resolves: clearTimeout, then the status check and the content
\* type check, up to the next await or the throw.
FetchResolves ==
  /\ pc = "fetching"
  /\ fetch[i] = "inflight"
  /\ \E r \in Responses(hosts[i]) :
     IF ~ResponseOk(r.status)
     THEN /\ timer' = [timer EXCEPT ![i] = TimerAfterResponse(@)]
          /\ fetch' = [fetch EXCEPT ![i] = "responded"]
          /\ response' = r
          /\ pc' = "errorBody"
          /\ UNCHANGED <<settled, outcome>>
     ELSE IF ~ContentTypeIsJson(r.contentType)
     THEN /\ timer' = [timer EXCEPT ![i] = TimerInCatch(TimerAfterResponse(@))]
          /\ response' = r
          /\ Caught(InvalidContentType)
     ELSE /\ timer' = [timer EXCEPT ![i] = TimerAfterResponse(@)]
          /\ fetch' = [fetch EXCEPT ![i] = "responded"]
          /\ response' = r
          /\ pc' = "body"
          /\ UNCHANGED <<settled, outcome>>
  /\ UNCHANGED <<options, client, call, hosts, i, sent, decoded, lastError, fallback,
                 validations, result>>
  /\ UNCHANGED <<url, conc>>

\* The body of a non-2xx response was read (or could not be): the inner
\* try/catch, then throw new IPCError(errorMessage, response.status, errorCode).
ErrorBodyRead ==
  /\ pc = "errorBody"
  /\ timer' = [timer EXCEPT ![i] = TimerInCatch(@)]
  /\ \E body \in Bodies(hosts[i], call.op, response.status) :
       /\ decoded' = body
       /\ Caught(NonOkError(call.impl, response.status, StatusText(response.status), body))
  /\ UNCHANGED <<options, client, call, hosts, i, sent, response, lastError, fallback,
                 validations, result>>
  /\ UNCHANGED <<url, conc>>

\* const data = await response.json(); return data as T
BodyRead ==
  /\ pc = "body"
  /\ \E body \in Bodies(hosts[i], call.op, response.status) :
     /\ decoded' = body
     /\ IF body.ok
        THEN /\ settled' = Resolved(body.data)
             /\ outcome' = [outcome EXCEPT ![i] = "resolved"]
             /\ fetch' = [fetch EXCEPT ![i] = "over"]
             /\ pc' = "settled"
             /\ UNCHANGED timer
        ELSE /\ timer' = [timer EXCEPT ![i] = TimerInCatch(@)]
             /\ Caught(body.error)
  /\ UNCHANGED <<options, client, call, hosts, i, sent, response, lastError, fallback,
                 validations, result>>
  /\ UNCHANGED <<url, conc>>

(***************************************************************************)
(* makeRequestWithFallback.                                                *)
(***************************************************************************)
\* A catch that keeps the first error instead of the latest.
NextLastErrorKeepsFirst(previous, error) == IF previous = None THEN Some(error) ELSE previous

\* catch (error) { lastError = error as Error; ... }
NextLastError(previous, error) == Some(error)

\* A loop that steps over a candidate after a failure.
NextCandidateSkips(k) == k + 2

\* A loop that tries the failed candidate again.
NextCandidateStays(k) == k

\* The loop's i++.
NextCandidate(k) == k + 1

\* A throw of lastError as it is: null when the loop never ran.
ThrownAfterLoopNoDefault(last) == IF last # None THEN CHOOSE e \in last : TRUE ELSE NoError

\* throw lastError || new IPCError('All requests failed')
ThrownAfterLoop(last) == IF last # None THEN CHOOSE e \in last : TRUE ELSE AllRequestsFailed

\* return await makeRequest(...): the candidate's payload is the result.
FallbackReturns ==
  /\ pc = "settled"
  /\ call.variant = "fallback"
  /\ settled.state = "resolved"
  /\ fallback' = [state |-> "resolved", data |-> settled.data, error |-> NoError,
                  candidate |-> i]
  /\ pc' = "validate"
  /\ response' = NoResponse
  /\ decoded' = NotRead
  /\ UNCHANGED <<options, client, call, hosts, i, timer, fetch, sent, outcome, settled,
                 lastError, validations, result>>
  /\ UNCHANGED <<url, conc>>

\* The candidate failed: keep its error and go on with the next index
\* (continue, or the end of the loop body on the last candidate).
FallbackCatches ==
  /\ pc = "settled"
  /\ call.variant = "fallback"
  /\ settled.state = "rejected"
  /\ lastError' = NextLastError(lastError, settled.error)
  /\ i' = NextCandidate(i)
  /\ pc' = "call"
  /\ response' = NoResponse
  /\ decoded' = NotRead
  /\ UNCHANGED <<options, client, call, hosts, timer, fetch, sent, outcome, settled,
                 fallback, validations, result>>
  /\ UNCHANGED <<url, conc>>

\* The loop is over without a return: the throw after it, which the
\* operation awaiting makeRequestWithFallback does not catch.
FallbackThrows ==
  /\ pc = "call"
  /\ call.variant = "fallback"
  /\ ~LoopRuns
  /\ fallback' = [state |-> "rejected", data |-> NoData,
                  error |-> ThrownAfterLoop(lastError), candidate |-> 0]
  /\ result' = Rejected(ThrownAfterLoop(lastError))
  /\ pc' = "done"
  /\ UNCHANGED <<options, client, call, hosts, i, timer, fetch, sent, outcome, response, decoded, settled,
                 lastError, validations>>
  /\ UNCHANGED <<url, conc>>

(***************************************************************************)
(* The operations: getIP, getIPDetails, getSDKVersions.                    *)
(***************************************************************************)
\* The single-URL operations await makeRequest itself.
DirectReturns ==
  /\ pc = "settled"
  /\ call.variant # "fallback"
  /\ settled.state = "resolved"
  /\ pc' = "validate"
  /\ response' = NoResponse
  /\ decoded' = NotRead
  /\ UNCHANGED <<options, client, call, hosts, i, timer, fetch, sent, outcome, settled,
                 lastError, fallback, validations, result>>
  /\ UNCHANGED <<url, conc>>

DirectThrows ==
  /\ pc = "settled"
  /\ call.variant # "fallback"
  /\ settled.state = "rejected"
  /\ result' = Rejected(settled.error)
  /\ pc' = "done"
  /\ response' = NoResponse
  /\ decoded' = NotRead
  /\ UNCHANGED <<options, client, call, hosts, i, timer, fetch, sent, outcome, settled,
                 lastError, fallback, validations>>
  /\ UNCHANGED <<url, conc>>

\* const data = await ...: what the operation validates.
Data == IF call.variant = "fallback" THEN fallback.data ELSE settled.data

\* if (!validate...(data)) throw new IPCError('Invalid response structure
\* from API'); return data
Validate ==
  /\ pc = "validate"
  /\ validations' = validations + 1
  /\ result' = IF Validates(call.op, Data) THEN Resolved(Data) ELSE Rejected(InvalidResponse)
  /\ pc' = "done"
  /\ UNCHANGED <<options, client, call, hosts, i, timer, fetch, sent, outcome, response, decoded, settled,
                 lastError, fallback>>
  /\ UNCHANGED <<url, conc>>

Next ==
  \/ Construct
  \/ Invoke
  \/ MakeRequest
  \/ \E k \in DOMAIN timer : TimerFire(k)
  \/ FetchAborted
  \/ FetchRejects
  \/ FetchResolves
  \/ ErrorBodyRead
  \/ BodyRead
  \/ FallbackReturns
  \/ FallbackCatches
  \/ FallbackThrows
  \/ DirectReturns
  \/ DirectThrows
  \/ Validate

Spec == Init /\ [][Next]_vars

\* The event loop runs every continuation that is ready, and a timer that
\* stays pending fires.
FairSpec ==
  /\ Spec
  /\ WF_vars(\E k \in DOMAIN timer : TimerFire(k))
  /\ WF_vars(FetchAborted)
  /\ WF_vars(MakeRequest)
  /\ WF_vars(FallbackCatches)
  /\ WF_vars(FallbackThrows)
  /\ WF_vars(FallbackReturns)
  /\ WF_vars(DirectReturns)
  /\ WF_vars(DirectThrows)
  /\ WF_vars(Validate)

\* FairSpec, and a host that answers does answer: the awaited fetch and the
\* awaited response.json() settle whenever the host's kind lets them.
LiveSpec ==
  /\ FairSpec
  /\ WF_vars(FetchResolves)
  /\ WF_vars(ErrorBodyRead)
  /\ WF_vars(BodyRead)

(***************************************************************************)
(* The calls of sanitizeBaseUrl: by the constructor of IPCClient on         *)
(* options.baseUrl || DEFAULT_BASE_URL, and by a caller of either variant  *)
(* of the exported function.                                               *)
(***************************************************************************)
BaseUrlOptions == {None} \cup {Some(r) : r \in ParsableUrls \cup UnparsableUrls}

\* The string the call of sanitizeBaseUrl was given.
UrlArgument ==
  IF url.caller = "constructor" THEN BaseUrlOrDefault(url.arg) ELSE CHOOSE r \in url.arg : TRUE

\* this.baseUrl = this.sanitizeBaseUrl(options.baseUrl || DEFAULT_BASE_URL)
ConstructBaseUrl ==
  /\ url.state = "idle"
  /\ \E option \in BaseUrlOptions :
       LET r == sanitizeBaseUrl("httpOrHttps", BaseUrlOrDefault(option))
       IN url' = [caller |-> "constructor", policy |-> "httpOrHttps", arg |-> option,
                  state |-> r.state, value |-> r.value, error |-> r.error]
  /\ UNCHANGED <<requestVars, conc>>

\* sanitizeBaseUrl(url), either variant.
SanitizeBaseUrl ==
  /\ url.state = "idle"
  /\ \E policy \in Policies : \E raw \in ParsableUrls \cup UnparsableUrls :
       LET r == sanitizeBaseUrl(policy, raw)
       IN url' = [caller |-> "function", policy |-> policy, arg |-> Some(raw),
                  state |-> r.state, value |-> r.value, error |-> r.error]
  /\ UNCHANGED <<requestVars, conc>>

UrlNext ==
  \/ ConstructBaseUrl
  \/ SanitizeBaseUrl

UrlSpec == Init /\ [][UrlNext]_vars

(***************************************************************************)
(* makeRequest calls running side by side.  controller and timeoutId are   *)
(* locals of each call: the timer callback of a call aborts the controller *)
(* that call created, and its fetch listens to that controller's signal.   *)
(* A host answers with a 200 JSON body (valid), never answers (hang) or    *)
(* lets fetch fail (fail); the response and its body come in one step.     *)
(***************************************************************************)
\* One controller, made once, that every call uses.
ControllerOfShared(c) == 1

\* const controller = new AbortController(), in the call's own scope.
ControllerOf(c) == c

\* The signal the fetch of call c listens to.
SignalOf(c) == conc[ControllerOf(c)].signal

\* const timeoutId = setTimeout(() => controller.abort(), timeout); fetch(url, { signal })
ConcStart(c) ==
  /\ conc[c].pc = "idle"
  /\ \E host \in {"valid", "hang", "fail"} : \E timeout \in {1, 5000} :
       conc' = [conc EXCEPT ![c].host = host, ![c].timeout = timeout,
                            ![c].pc = "fetching", ![c].timer = "pending"]
  /\ UNCHANGED <<requestVars, url>>

\* The timer of call c fires: controller.abort().
ConcTimerFire(c) ==
  /\ conc[c].timer = "pending"
  /\ conc[c].pc = "fetching" => conc[c].host \in {"hang", "fail"}
  /\ conc' = [k \in Requests |->
                [conc[k] EXCEPT !.timer = IF k = c THEN "inactive" ELSE @,
                                !.signal = IF k = ControllerOf(c) THEN "aborted" ELSE @]]
  /\ UNCHANGED <<requestVars, url>>

\* The fetch of call c rejects with an AbortError: its signal was aborted.
ConcFetchAborted(c) ==
  /\ conc[c].pc = "fetching"
  /\ SignalOf(c) = "aborted"
  /\ conc' = [conc EXCEPT ![c].pc = "settled", ![c].timer = TimerInCatch(@),
                          ![c].settled =
                            Rejected(CatchMapping("strict", AbortError, conc[c].timeout))]
  /\ UNCHANGED <<requestVars, url>>

\* The fetch of call c rejects on its own.
ConcFetchRejects(c) ==
  /\ conc[c].pc = "fetching"
  /\ conc[c].host = "fail"
  /\ SignalOf(c) = "clear"
  /\ \E e \in FetchFailures :
       conc' = [conc EXCEPT ![c].pc = "settled", ![c].timer = TimerInCatch(@),
                            ![c].settled =
                              Rejected(CatchMapping("strict", e, conc[c].timeout))]
  /\ UNCHANGED <<requestVars, url>>

\* The fetch of call c resolves, clearTimeout, and the body is returned.
ConcFetchResolves(c) ==
  /\ conc[c].pc = "fetching"
  /\ conc[c].host = "valid"
  /\ SignalOf(c) = "clear"
  /\ \E data \in ValidPayloads("getIPDetails") :
       conc' = [conc EXCEPT ![c].pc = "settled", ![c].timer = TimerAfterResponse(@),
                            ![c].settled = Resolved(data)]
  /\ UNCHANGED <<requestVars, url>>

ConcNext ==
  \E c \in Requests :
    \/ ConcStart(c)
    \/ ConcTimerFire(c)
    \/ ConcFetchAborted(c)
    \/ ConcFetchRejects(c)
    \/ ConcFetchResolves(c)

ConcSpec == Init /\ [][ConcNext]_vars

(***************************************************************************)
(* Properties.                                                             *)
(***************************************************************************)
Candidates == DOMAIN hosts

IsFallback == call.variant = "fallback"

\* The bodies a host of this kind delivers for the operation.
PayloadsOf(kind, op) ==
  CASE kind = "valid" -> ValidPayloads(op)
    [] kind = "invalid" -> InvalidPayloads(op)
    [] OTHER -> {}

\* C1: makeRequestWithFallback tries the candidates in list order and
\* returns the payload of the first candidate whose request succeeds: every
\* earlier candidate was requested once and failed, no candidate after a
\* successful one is ever requested, and no error of an earlier candidate
\* reaches the caller.
C1_FirstSuccessIsReturned ==
  IsFallback =>
    /\ \A k \in Candidates :
         outcome[k] = "resolved" =>
           /\ \A j \in Candidates : j < k => outcome[j] = "rejected" /\ sent[j] = 1
           /\ \A j \in Candidates : j > k => sent[j] = 0 /\ outcome[j] = "none"
    /\ fallback.state = "resolved" =>
         /\ fallback.candidate \in Candidates
         /\ outcome[fallback.candidate] = "resolved"
         /\ fallback.data \in PayloadsOf(hosts[fallback.candidate], call.op)
         /\ fallback.error = NoError
         /\ result.state = "rejected" => result.error \notin lastError
    /\ \A k \in Candidates : sent[k] = 1 => \A j \in Candidates : j < k => sent[j] = 1

\* The second of three candidates succeeded after the first failed.
C1_Witness ==
  /\ IsFallback
  /\ Len(hosts) = 3
  /\ fallback.state = "resolved"
  /\ fallback.candidate = 2
  /\ lastError # None

\* C2: when every candidate of a non-empty list fails, the rejection of
\* makeRequestWithFallback is the error the last candidate's makeRequest
\* rejected with, unchanged, and it is what the operation rejects with.
C2_LastErrorIsThrown ==
  (IsFallback /\ fallback.state = "rejected" /\ Len(hosts) > 0) =>
    /\ \A k \in Candidates : outcome[k] = "rejected" /\ sent[k] = 1
    /\ settled.state = "rejected"
    /\ fallback.error = settled.error
    /\ result = Rejected(settled.error)

\* Three candidates failed, the last one with a status the others may not
\* have had.
C2_Witness ==
  /\ IsFallback
  /\ Len(hosts) = 3
  /\ fallback.state = "rejected"
  /\ fallback.error.statusCode = Some(503)

\* C3: over an empty candidate list no request is issued and no timer is
\* started, and the call rejects with the all-requests-failed error.
C3_EmptyListRejects ==
  (IsFallback /\ hosts = <<>>) =>
    /\ pc \in {"call", "done"}
    /\ response = NoResponse
    /\ settled = Pending
    /\ pc = "done" =>
         /\ fallback.state = "rejected"
         /\ fallback.error = AllRequestsFailed
         /\ result = Rejected(AllRequestsFailed)
         /\ validations = 0

C3_Witness ==
  /\ IsFallback
  /\ hosts = <<>>
  /\ pc = "done"
  /\ result.state = "rejected"

\* C4: whatever an operation resolves with has the operation's declared
\* shape: every required property is there with its kind, and languages
\* holds strings only.
C4_ResolvedValueConforms ==
  result.state = "resolved" => Conforms(call.op, result.data)

C4_Witness ==
  /\ result.state = "resolved"
  /\ call.op = "getIPDetails"
  /\ IsFallback
  /\ Len(hosts) = 2

\* C5: in the operations over a candidate list the validator runs at most
\* once, and only on the payload makeRequestWithFallback returned; when
\* that payload is not of the operation's shape the operation rejects with
\* the invalid-response error and no further candidate is requested.
C5_ValidationAfterCommit ==
  IsFallback =>
    /\ validations <= 1
    /\ validations = 1 => fallback.state = "resolved" /\ pc = "done"
    /\ (pc = "done" /\ fallback.state = "resolved"
        /\ hosts[fallback.candidate] = "invalid") =>
         /\ result = Rejected(InvalidResponse)
         /\ \A j \in Candidates : j > fallback.candidate => sent[j] = 0

\* An invalid payload from the first of two candidates.
C5_Witness ==
  /\ IsFallback
  /\ pc = "done"
  /\ Len(hosts) = 2
  /\ fallback.state = "resolved"
  /\ fallback.candidate = 1
  /\ hosts[1] = "invalid"
  /\ validations = 1

\* A host that answers: neither one that fails nor one that never responds.
Answers(k) == hosts[k] \in {"valid", "invalid", "stall"}

\* The first candidate in list order whose host answers (0: none does).
FirstAnswering ==
  IF \E k \in Candidates : Answers(k)
  THEN CHOOSE k \in Candidates : Answers(k) /\ \A j \in Candidates : j < k => ~Answers(j)
  ELSE 0

\* C6, as claimed: a failure of any kind at a candidate, a payload the
\* validator rejects included, advances to the next candidate, so a
\* finished operation resolved whenever some candidate's host would answer
\* with a valid payload.
C6_AnyFailureAdvances ==
  (IsFallback /\ pc = "done") =>
    /\ result = Rejected(InvalidResponse) => \A k \in Candidates : sent[k] = 1
    /\ (\E k \in Candidates : hosts[k] = "valid") => result.state = "resolved"

\* C6, amended: a failure of makeRequest at a candidate (timeout, network
\* or unknown error, non-2xx status, invalid content type, undecodable
\* body) advances to the next candidate whenever one remains; a payload the
\* validator rejects does not, it ends the operation with the
\* invalid-response error.  So a finished operation resolved exactly when
\* the first candidate whose host answers answered with a valid payload.
C6_RequestFailureAdvances ==
  (IsFallback /\ pc = "done") =>
    /\ \A k \in Candidates :
         (outcome[k] = "rejected" /\ k < Len(hosts)) => sent[k + 1] = 1
    /\ result.state = "resolved" <=>
         (FirstAnswering # 0 /\ hosts[FirstAnswering] = "valid")
    /\ (FirstAnswering # 0 /\ hosts[FirstAnswering] = "invalid") =>
         /\ result = Rejected(InvalidResponse)
         /\ \A j \in Candidates : j > FirstAnswering => sent[j] = 0

\* The first candidate failed and the operation went on to the second; its
\* payload was rejected and the third, which would have answered well, was
\* never requested.
C6_Witness ==
  /\ IsFallback
  /\ pc = "done"
  /\ hosts = <<"fail", "invalid", "valid">>
  /\ result = Rejected(InvalidResponse)
  /\ sent = <<1, 1, 0>>

\* C7, as claimed: the constructor fails for every supplied timeout outside
\* 1..60000 before any request is made, and a constructed client holds the
\* supplied timeout or, when none was supplied, the default.
C7_TimeoutIsValidated ==
  options.given =>
    /\ (\E v \in options.timeout : v < 1 \/ v > MAX_TIMEOUT) =>
         /\ client.state = "failed"
         /\ IsIPCError(client.error)
         /\ pc = "idle"
    /\ (\E v \in options.timeout : v >= 1 /\ v <= MAX_TIMEOUT) =>
         /\ client.state = "ready"
         /\ client.timeout \in options.timeout
    /\ options.timeout = None =>
         /\ client.state = "ready"
         /\ client.timeout = DEFAULT_TIMEOUT

\* The rejection of a makeRequest call whose timer fired.
TimeoutError == IPCError(TimeoutMessage(client.timeout), None, None)

\* C8: a makeRequest call to a host that never responds ends, once its
\* timer has fired, rejected with the timeout error that names the call's
\* own timeout; it never ends any other way.
C8_SilentHostTimesOut ==
  /\ []((pc = "settled" /\ hosts[i] = "hang") => settled = Rejected(TimeoutError))
  /\ (pc = "fetching" /\ hosts[i] = "hang")
       ~> (pc = "settled" /\ hosts[i] = "hang" /\ settled = Rejected(TimeoutError))

C8_Witness ==
  /\ pc = "settled"
  /\ hosts[i] = "hang"
  /\ client.timeout = 5000
  /\ settled = Rejected(TimeoutError)
  /\ timer[i] = "inactive"

\* C9: the timer of a makeRequest call that is over, however it ended, is
\* not pending, so it cannot fire any more; only the running call has a
\* pending timer, and none is pending once the operation is over.
C9_NoTimerOutlivesItsCall ==
  /\ \A k \in Candidates :
       outcome[k] \in {"resolved", "rejected"} => timer[k] = "inactive" /\ ~ENABLED TimerFire(k)
  /\ \A k \in Candidates : timer[k] = "pending" => k = i /\ pc = "fetching"
  /\ pc = "done" => \A k \in Candidates : timer[k] # "pending"

\* Three calls over, ended by the catch block.
C9_Witness ==
  /\ pc = "done"
  /\ Len(hosts) = 3
  /\ \A k \in Candidates : outcome[k] = "rejected" /\ timer[k] = "inactive"

\* The latest makeRequest call is over and had received a non-2xx response.
EndedOnNonOk == pc = "settled" /\ response # NoResponse /\ ~ResponseOk(response.status)

\* The decoded error body has the property, whatever its value.
HasProperty(name) ==
  decoded.ok /\ decoded.data.t = "object" /\ decoded.data.f[name] # Undefined

\* The decoded error body has the property with a truthy value.
HasTruthyProperty(name) ==
  decoded.ok /\ decoded.data.t = "object" /\ Truthy(decoded.data.f[name])

GenericHttpMessage == HttpMessage(response.status, StatusText(response.status))

\* An error carries a status code only when makeRequest got a non-2xx response.
StatusCodeOnlyFromNonOk ==
  /\ (pc = "settled" /\ settled.state = "rejected" /\ settled.error.statusCode # None)
       => EndedOnNonOk
  /\ client.error.statusCode = None
  /\ result.error.statusCode # None =>
       (result.error \in lastError \/ result.error = settled.error)

\* C10, as claimed: the error of a non-2xx response carries the status, the
\* body's message and code whenever the decoded body has them, and the
\* generic message and no code otherwise.
C10_BodyFieldsWhenPresent ==
  /\ EndedOnNonOk =>
       /\ settled.state = "rejected"
       /\ IsIPCError(settled.error)
       /\ settled.error.statusCode = Some(response.status)
       /\ settled.error.message =
            IF HasProperty("message") THEN Plain(decoded.data.f["message"].s)
            ELSE GenericHttpMessage
       /\ settled.error.code =
            IF HasProperty("code") THEN Some(decoded.data.f["code"].s) ELSE None
  /\ StatusCodeOnlyFromNonOk

\* C10, amended: the message and the code are the body's only when the
\* decoded body has them with a truthy value (an empty message or code
\* counts as absent); a body that does not decode gives the generic message
\* and no code, and the status is carried in every case.
C10_BodyFieldsWhenTruthy ==
  /\ EndedOnNonOk =>
       /\ settled.state = "rejected"
       /\ IsIPCError(settled.error)
       /\ settled.error.statusCode = Some(response.status)
       /\ settled.error.message =
            IF HasTruthyProperty("message") THEN Plain(decoded.data.f["message"].s)
            ELSE GenericHttpMessage
       /\ settled.error.code =
            IF HasTruthyProperty("code") THEN Some(decoded.data.f["code"].s) ELSE None
       /\ ~decoded.ok => settled.error = IPCError(GenericHttpMessage, Some(response.status), None)
  /\ StatusCodeOnlyFromNonOk

\* A 404 whose body did not decode.
C10_Witness ==
  /\ EndedOnNonOk
  /\ response.status = 404
  /\ ~decoded.ok
  /\ settled.error.statusCode = Some(404)

\* The exceptions the catch block classifies neither as an abort, nor as an
\* IPCError, nor as a transport TypeError.
UnclassifiedExceptions ==
  {e \in FetchFailures \cup DecodeFailures : e.name \notin {"AbortError", "IPCError", "TypeError"}}

\* Other message texts such an exception may carry.
OtherTexts == {"connect ECONNREFUSED 10.0.0.5:443", "Unexpected end of JSON input"}

\* C11, as claimed: the error makeRequest gives for an unclassified
\* exception does not depend on the exception's message text: the same
\* exception with another text gives the same error, and the error of a
\* call that ended on such an exception does not carry its text.
C11_UnknownErrorIsGeneric ==
  /\ call # NoCall =>
       \A e \in UnclassifiedExceptions : \A text \in OtherTexts :
         CatchMapping(call.impl, e, client.timeout)
           = CatchMapping(call.impl, [e EXCEPT !.message = Plain(text)], client.timeout)
  /\ (pc = "settled" /\ ResponseOk(response.status) /\ ~decoded.ok
      /\ decoded.error \in UnclassifiedExceptions) =>
       settled.error.message # decoded.error.message

\* The decoded body has no country property (no body that is not an object
\* has one).
LacksCountry(data) == data.f["country"] = Undefined

\* C12, as claimed: whatever the operation, a decoded 200 JSON body that
\* lacks the country field makes the operation reject with the
\* invalid-response error.
C12_MissingCountryRejects ==
  (pc = "done" /\ validations = 1 /\ LacksCountry(Data)) =>
    result = Rejected(InvalidResponse)

\* C12, amended: getIP and getIPDetails reject a body that lacks country
\* with the invalid-response error; getSDKVersions does not look at country
\* and resolves with a body that lacks it exactly when javascript and python
\* are strings.
C12_MissingCountryRejectsWhereRequired ==
  (pc = "done" /\ validations = 1 /\ LacksCountry(Data)) =>
    /\ call.op \in {"getIP", "getIPDetails"} => result = Rejected(InvalidResponse)
    /\ call.op = "getSDKVersions" =>
         IF Data.t = "object" /\ Data.f["javascript"].t = "string"
            /\ Data.f["python"].t = "string"
         THEN result = Resolved(Data)
         ELSE result = Rejected(InvalidResponse)

\* getIP was answered with an object that has ip and no country.
C12_Witness ==
  /\ pc = "done"
  /\ call.op = "getIP"
  /\ validations = 1
  /\ Data.t = "object"
  /\ Data.f["ip"] = Str("x")
  /\ LacksCountry(Data)
  /\ result = Rejected(InvalidResponse)

\* C13: whatever a makeRequest call, makeRequestWithFallback, an operation
\* or the constructor fails with is an IPCError; no exception of fetch, of
\* the abort or of response.json() reaches the caller as it is.
C13_EveryFailureIsIPCError ==
  /\ settled.state = "rejected" => IsIPCError(settled.error)
  /\ \A e \in lastError : IsIPCError(e)
  /\ fallback.state = "rejected" => IsIPCError(fallback.error)
  /\ result.state = "rejected" =>
       IsIPCError(result.error) /\ result.error \notin FetchFailures \cup DecodeFailures \cup {AbortError}
  /\ client.state = "failed" => IsIPCError(client.error)

\* A 200 response whose body was no JSON: the SyntaxError of response.json()
\* was caught and an IPCError came out.
C13_Witness ==
  /\ pc = "settled"
  /\ ResponseOk(response.status)
  /\ ~decoded.ok
  /\ decoded.error.name = "SyntaxError"
  /\ settled.state = "rejected"
  /\ IsIPCError(settled.error)

\* The candidates whose request is under way, and those whose timer is pending.
InFlight == {k \in Candidates : fetch[k] \in {"inflight", "aborted", "responded"}}
PendingTimers == {k \in Candidates : timer[k] = "pending"}

\* C16: within one makeRequestWithFallback call at most one request is
\* under way and at most one timer is pending, a candidate is requested
\* only after the one before it has failed, no candidate is requested twice,
\* and every candidate up to the first successful one was requested once.
C16_AttemptsAreSequential ==
  IsFallback =>
    /\ Cardinality(InFlight) <= 1
    /\ Cardinality(PendingTimers) <= 1
    /\ \A k \in Candidates : sent[k] <= 1
    /\ \A k \in Candidates : (sent[k] = 1 /\ k > 1) => outcome[k - 1] = "rejected"
    /\ \A k \in Candidates : outcome[k] = "resolved" => \A j \in 1..k : sent[j] = 1
    /\ \A k \in InFlight \cup PendingTimers : k = i

\* The third candidate's request is under way after two failures.
C16_Witness ==
  /\ IsFallback
  /\ Len(hosts) = 3
  /\ outcome = <<"rejected", "rejected", "pending">>
  /\ InFlight = {3}
  /\ PendingTimers = {3}

\* The Content-Type of the response is missing or has no application/json.
NotJson(contentType) == \A k \in 1..Len(contentType) : contentType[k] # "application/json"

\* C17: a 2xx response whose Content-Type is missing or is not JSON ends
\* the call with the invalid-content-type error and its body is not read;
\* a non-2xx response ends it with the HTTP error whatever its content
\* type; a body is read as the payload only of a 2xx JSON response.
C17_StatusThenContentTypeThenBody ==
  /\ (pc = "settled" /\ ResponseOk(response.status) /\ NotJson(response.contentType)) =>
       /\ settled = Rejected(InvalidContentType)
       /\ decoded = NotRead
  /\ (pc = "settled" /\ response # NoResponse /\ ~ResponseOk(response.status)) =>
       /\ settled.state = "rejected"
       /\ settled.error.statusCode = Some(response.status)
       /\ settled.error # InvalidContentType
  /\ pc = "body" => ResponseOk(response.status) /\ ~NotJson(response.contentType)
  /\ pc = "errorBody" => ~ResponseOk(response.status)
  /\ (pc = "settled" /\ settled.state = "resolved") =>
       ResponseOk(response.status) /\ ~NotJson(response.contentType)

\* A 200 text/html response.
C17_Witness ==
  /\ pc = "settled"
  /\ response = [status |-> 200, contentType |-> <<"text/html">>]
  /\ settled = Rejected(InvalidContentType)
  /\ decoded = NotRead

\* C19, as claimed: every makeRequest call that was started resolves or
\* rejects, whether the host never answers or answers and never delivers
\* the body, and so every operation that was invoked ends.
C19_EveryCallEnds ==
  /\ (pc \in {"fetching", "body", "errorBody"}) ~> (pc = "settled")
  /\ (pc = "call") ~> (pc = "done")

\* C14, as claimed: sanitizeBaseUrl throws an IPCError for a string that
\* does not parse and for ftp under both policies, and for http under the
\* https-only policy; and the base URL a constructed client holds is https.
C14_OnlyHttpsIsAccepted ==
  url.state \in {"returned", "thrown"} =>
    /\ (~UrlArgument.parsable \/ UrlArgument.protocol = "ftp:") =>
         url.state = "thrown" /\ IsIPCError(url.error)
    /\ (url.policy = "httpsOnly" /\ UrlArgument.protocol = "http:") =>
         url.state = "thrown" /\ IsIPCError(url.error)
    /\ (url.caller = "constructor" /\ url.state = "returned") =>
         url.value.origin.protocol = "https:"

OwnOutcomes(host, timeout) ==
  CASE host = "valid" -> {Resolved(d) : d \in ValidPayloads("getIPDetails")}
    [] host = "hang" -> {Rejected(IPCError(TimeoutMessage(timeout), None, None))}
    [] host = "fail" ->
         {Rejected(CatchMapping("strict", e, timeout)) : e \in FetchFailures \cup {AbortError}}
    [] OTHER -> {}

\* A signal is aborted only once the timer of its own call has fired, and
\* a call that is over ended as its own host and timer make it end.
OwnSignalAndOutcome ==
  \A c \in Requests :
    /\ conc[c].signal = "aborted" => conc[c].timer = "inactive" /\ conc[c].host # "valid"
    /\ conc[c].pc = "settled" => conc[c].settled \in OwnOutcomes(conc[c].host, conc[c].timeout)
    /\ conc[c].pc # "settled" => conc[c].settled = Pending

\* A step changes the state of one call only.
OneCallPerStep ==
  \A c, d \in Requests : c # d => (conc'[c] = conc[c] \/ conc'[d] = conc[d])

\* C18: among makeRequest calls that run side by side, the firing of a
\* call's timer aborts that call's signal and no other, every step changes
\* one call only, and each call ends as its own host and its own timer make
\* it end, whatever the other calls do.
C18_CallsAreIsolated == []OwnSignalAndOutcome /\ [][OneCallPerStep]_vars

\* The timer of the second call has fired while the first call, to a host
\* that answers, is waiting for its response with its timer pending.
C18_Witness ==
  /\ conc[2].signal = "aborted"
  /\ conc[2].timer = "inactive"
  /\ conc[2].timeout = 1
  /\ conc[1].pc = "fetching"
  /\ conc[1].host = "valid"
  /\ conc[1].timer = "pending"
  /\ conc[1].signal = "clear"

====
